---- MODULE Spec2Model ----
(***************************************************************************)
(* A model of the ping program (src/ping/ping.go): the Pinger's three      *)
(* goroutines (Ping with sendICMP, receiveLoop, processLoop), the request   *)
(* queue guarded by p.mux, the stop/done channels, the caller (run) and     *)
(* the PingStats aggregator.                                                *)
(*                                                                          *)
(* Abstractions.  Time is a bounded integer clock (now); a time.Duration   *)
(* is an integer number of clock units.  A received packet is modelled by  *)
(* what the decoding in processRecv extracts from it: its kind (echo reply, *)
(* time exceeded with a parsable embedded echo, time exceeded without one,  *)
(* another ICMP type, undecodable bytes), the echo id, the echo sequence    *)
(* number (echo replies only: for time exceeded it is only formatted into   *)
(* the error text) and the sender address.  An error value is modelled by   *)
(* a tag naming the fmt.Errorf that produced it.  The Go runtime's fatal    *)
(* errors (unlock of an unlocked mutex, concurrent map access) end the      *)
(* process: once fatal is set no action is enabled.                         *)
(*                                                                          *)
(* sendICMP always returns nil: Marshal of an icmp.Echo body cannot fail    *)
(* and a WriteTo error only ends the retry loop, so Ping never sends on     *)
(* p.mainCtx.done itself.  Accesses to p.queue that overlap because the     *)
(* mutex was released under its holder are taken in either order, or are    *)
(* detected by the runtime (MapRace).  The sweep reads the clock once.      *)
(***************************************************************************)
EXTENDS Integers, Sequences, FiniteSets, TLC

\* ---------------------------------------------------------------- bounds
\* rand.Intn(0xffff) draws from NumIds ids instead of 65535.
NumIds == 2
\* At most MaxSends calls of sendICMP in a run.
MaxSends == 2
\* The clock runs from 0 to MaxTime.
MaxTime == 2
\* A time-exceeded packet is read only while ps.packets has fewer than MaxLossy records.
MaxLossy == 1
\* SpecStats: at most MaxRecords records, with round-trip times 0..MaxRTTVal.
MaxRecords == 4
MaxRTTVal == 2
\* SpecAuth: the messages given to the hash command have 0..MaxMsgLen bytes.
MaxMsgLen == 255
\* SpecChat: names have 0, 1 or MaxNameLen bytes, the data of the first message
\* 0..MaxDataLen bytes; at most MaxChatMsgs messages are sent.
MaxNameLen == 32
MaxDataLen == 255
MaxChatMsgs == 2

\* ------------------------------------------------------ program constants
\* const MaxSendRetries = 5
MaxSendRetries == 5
\* defaultMaxRTT = 1 * time.Second, in clock units
defaultMaxRTT == 1

\* uint8: the values 0 .. Uint8Max
Uint8Max == 255
\* socket-chat: MaxNameByteSize = 32, MaxDataByteSize = 255, HeaderSize = 6
MaxNameByteSize == 32
MaxDataByteSize == 255
HeaderSize == 6

Ids == 0..(NumIds - 1)
Addrs == {"target", "other"}
Nil == "nil"

\* packet, as decoded by processRecv
NoPkt == [kind |-> "none", id |-> 0, seq |-> 0, addr |-> "none"]
ReplyPkts == [kind : {"reply"}, id : Ids, seq : 0..(MaxSends - 1), addr : Addrs]
TTLPkts == [kind : {"ttl"}, id : Ids, seq : {0}, addr : {"other"}]
OtherPkts == [kind : {"ttl_bad", "other", "garbage"}, id : {0}, seq : {0}, addr : {"other"}]
Lossy(pkt) == pkt.kind \in {"ttl", "ttl_bad"}

\* task{} : the zero value returned by unqueuePkt when the id is unknown
ZeroTask == [id |-> 0, seq |-> 0, sendTime |-> 0, addr |-> "none"]

\* packetStat; rtt is a *time.Duration, NilRTT the nil pointer
NilRTT == -1
StatOK(rtt) == [successful |-> TRUE, rtt |-> rtt]
StatLost == [successful |-> FALSE, rtt |-> NilRTT]

VARIABLES
  queue,          \* p.queue : map[int]task
  seq,            \* p.seq
  mux,            \* p.mux : "none" when unlocked, else the goroutine that locked it
  mainCtxDone,    \* p.mainCtx.done    (buffer 1)
  recvCtxStop,    \* p.recvCtx.stop    (buffer 1), number of values buffered
  recvCtxDone,    \* p.recvCtx.done    (buffer 1)
  processCtxStop, \* p.processCtx.stop (buffer 1), number of values buffered
  ticker,         \* p.ticker : "nil", "running", "stopped"
  pingPC, sendId, sendTime, pingErr,   \* goroutine Ping / sendICMP
  retries,        \* sendICMP: retries
  writeErr,       \* sendICMP: err of the last p.conn.WriteTo
  recvPC,                                       \* goroutine receiveLoop
  procPC, procPkt, procT, procErr,              \* goroutine processLoop
  mainPC, summary,                              \* run()
  packets,        \* ps.packets
  startTime,      \* ps.startTime
  nOK, nLost,     \* history: calls of PacketReceived and of PacketLost
  now,            \* the clock
  fatal,          \* "none", or the runtime's fatal error
  hasher,         \* msg-auth: globalHasher
  wmSent,         \* msg-auth, Hash: wm
  wirestr,        \* msg-auth: the string Hash printed, the argument of Verify
  wmRecv,         \* msg-auth, Verify: wm
  verifyOut,      \* msg-auth, Verify: what it printed or returned
  stream,         \* socket-chat: the bytes written to the net.Conn and not yet read
  chatSent,       \* socket-chat, history: the messages Send has written
  chatRecv,       \* socket-chat, history: what the calls of Receive returned
  conns,          \* chat server: s.conns, the names with a connection
  groups,         \* chat server: s.groups
  groupsMux,      \* chat server: s.groupsMux, "none" or the handler that locked it
  hpc,            \* chat server: where each client's handleConn is
  hstack          \* chat server: each handler's stack of sendToClient calls

vars == <<queue, seq, mux, mainCtxDone, recvCtxStop, recvCtxDone,
          processCtxStop, ticker, pingPC, sendId, sendTime,
          pingErr, retries, writeErr, recvPC, procPC, procPkt, procT, procErr, mainPC, summary,
          packets, startTime, nOK, nLost, now, fatal,
          hasher, wmSent, wirestr, wmRecv, verifyOut,
          stream, chatSent, chatRecv, conns, groups, groupsMux, hpc, hstack>>

\* groups of variables, for the UNCHANGED clauses
ledger == <<queue, seq>>
chans == <<mainCtxDone, recvCtxStop, recvCtxDone, processCtxStop>>
pingLocal == <<pingPC, sendId, sendTime, pingErr, retries, writeErr>>
procLocal == <<procPC, procPkt, procT, procErr>>
mainVars == <<mainPC, summary>>
statVars == <<packets, nOK, nLost>>
pingerVars == <<ledger, mux, chans, ticker, pingLocal, recvPC, procLocal>>
authVars == <<hasher, wmSent, wirestr, wmRecv, verifyOut>>
codecVars == <<stream, chatSent, chatRecv>>
serverVars == <<conns, groups, groupsMux, hpc, hstack>>
chatVars == <<codecVars, serverVars>>
pingVars == <<pingerVars, mainVars, statVars, startTime, now, fatal>>

\* chat server: the clients that connect, and the names of the groups they use
Clients == {"a", "b"}
GroupNames == {"g"}

\* msg-auth: globalHasher before run() has set it; a nil *WireMessage
NoHasher == [algo |-> "none", prefix |-> << >>]
NilWm == [Length |-> -1, Message |-> << >>, Hash |-> << >>]

NoSummary == [NumPackets |-> -1, NumReceived |-> -1, TotalDuration |-> -1,
              MinRTT |-> -1, AvgRTT |-> -1, MaxRTT |-> -1, SdevRTT |-> -1]

\* NewPinger, ps = &PingStats{}, ps.Start(), and go func() { p.Ping(host) }
Init ==
  /\ queue = << >>
  /\ seq = 0
  /\ mux = "none"
  /\ mainCtxDone = << >>
  /\ recvCtxStop = 0
  /\ recvCtxDone = << >>
  /\ processCtxStop = 0
  /\ ticker = "nil"
  /\ pingPC = "start" /\ sendId = 0 /\ sendTime = 0 /\ pingErr = Nil
  /\ retries = 0 /\ writeErr = Nil
  /\ recvPC = "idle"
  /\ procPC = "idle" /\ procPkt = NoPkt /\ procT = ZeroTask /\ procErr = Nil
  /\ mainPC = "wait" /\ summary = NoSummary
  /\ packets = << >>
  /\ startTime = 0
  /\ nOK = 0 /\ nLost = 0
  /\ now = 0
  /\ fatal = "none"
  /\ hasher = NoHasher
  /\ wmSent = NilWm
  /\ wirestr = << >>
  /\ wmRecv = NilWm
  /\ verifyOut = "none"
  /\ stream = << >>
  /\ chatSent = << >>
  /\ chatRecv = << >>
  /\ conns = {}
  /\ groups = << >>
  /\ groupsMux = "none"
  /\ hpc = [h \in Clients |-> "idle"]
  /\ hstack = [h \in Clients |-> << >>]

\* ------------------------------------------------------------- PingStats
\* func (s *PingStats) PacketReceived(rtt time.Duration)
PacketReceived(pk, rtt) == Append(pk, StatOK(rtt))

\* func (s *PingStats) PacketLost()
PacketLost(pk) == Append(pk, StatLost)

\* math.Min / math.Max through processDurations
processDurationsMin(a, b) == IF a < b THEN a ELSE b
processDurationsMax(a, b) == IF a > b THEN a ELSE b

\* int64(math.Sqrt(x)) for an integer x >= 0
Isqrt(x) == CHOOSE r \in 0..x : r * r <= x /\ (r + 1) * (r + 1) > x

\* the first loop of Calculate, from record i on; acc carries the summary and rttsum
RECURSIVE CalcLoop(_, _, _)
CalcLoop(pk, i, acc) ==
  IF i > Len(pk) THEN acc
  ELSE LET p == pk[i]
           a1 == [acc EXCEPT !.NumPackets = @ + 1,
                             !.NumReceived = IF p.successful THEN @ + 1 ELSE @]
           a2 == IF p.rtt = NilRTT THEN a1
                 ELSE [a1 EXCEPT !.rttsum = @ + p.rtt,
                                 !.MinRTT = IF i = 1 THEN p.rtt
                                            ELSE processDurationsMin(@, p.rtt),
                                 !.MaxRTT = IF i = 1 THEN p.rtt
                                            ELSE processDurationsMax(@, p.rtt)]
       IN CalcLoop(pk, i + 1, a2)

\* the second loop of Calculate: the sum of (rtt - avg)^2 over the records with an rtt
RECURSIVE DiffSum(_, _, _)
DiffSum(pk, i, avg) ==
  IF i > Len(pk) THEN 0
  ELSE (IF pk[i].rtt = NilRTT THEN 0 ELSE (pk[i].rtt - avg) * (pk[i].rtt - avg))
       + DiffSum(pk, i + 1, avg)

ZeroSummary == [NumPackets |-> 0, NumReceived |-> 0, TotalDuration |-> 0,
                MinRTT |-> 0, AvgRTT |-> 0, MaxRTT |-> 0, SdevRTT |-> 0]

\* Calculate with NumReceived++ outside its "if p.successful"
CalculateCountsAll(pk, start, t, nan) ==
  LET acc == CalcLoop(pk, 1, [NumPackets |-> 0, NumReceived |-> 0,
                              MinRTT |-> 0, MaxRTT |-> 0, rttsum |-> 0])
  IN [NumPackets |-> acc.NumPackets, NumReceived |-> acc.NumPackets,
      TotalDuration |-> t - start, MinRTT |-> acc.MinRTT, AvgRTT |-> 0,
      MaxRTT |-> acc.MaxRTT, SdevRTT |-> nan]

\* Calculate dividing rttsum by the number of received records
CalculateAvgOverReceived(pk, start, t, nan) ==
  IF Len(pk) = 0 THEN ZeroSummary
  ELSE LET acc == CalcLoop(pk, 1, [NumPackets |-> 0, NumReceived |-> 0,
                                   MinRTT |-> 0, MaxRTT |-> 0, rttsum |-> 0])
       IN [NumPackets |-> acc.NumPackets, NumReceived |-> acc.NumReceived,
           TotalDuration |-> t - start, MinRTT |-> acc.MinRTT,
           AvgRTT |-> IF acc.NumReceived = 0 THEN 0
                      ELSE acc.rttsum \div acc.NumReceived,
           MaxRTT |-> acc.MaxRTT, SdevRTT |-> nan]

\* Calculate with ps.TotalDuration set before the len(s.packets) == 0 return
CalculateElapsedFirst(pk, start, t, nan) ==
  [ZeroSummary EXCEPT !.TotalDuration = t - start,
                      !.NumPackets = Len(pk)]

\* func (s *PingStats) Calculate() *PingSummary, called at time t.  With one
\* record the deviation is sqrt(0/0) = NaN and int64(NaN) is implementation
\* specific: nan is the value the build produces for it.
Calculate(pk, start, t, nan) ==
  IF Len(pk) = 0 THEN ZeroSummary
  ELSE LET acc == CalcLoop(pk, 1, [NumPackets |-> 0, NumReceived |-> 0,
                                   MinRTT |-> 0, MaxRTT |-> 0, rttsum |-> 0])
           avg == acc.rttsum \div Len(pk)
           sd == IF Len(pk) = 1 THEN nan
                 ELSE Isqrt(DiffSum(pk, 1, avg) \div (Len(pk) - 1))
       IN [NumPackets |-> acc.NumPackets, NumReceived |-> acc.NumReceived,
           TotalDuration |-> t - start,
           MinRTT |-> acc.MinRTT, AvgRTT |-> avg, MaxRTT |-> acc.MaxRTT,
           SdevRTT |-> sd]

\* the results int64(NaN) can have: 0 (arm64), the minimum int64 (amd64, written NaNMin)
NaNMin == -2147483647
NaNInt64 == {0, NaNMin}

\* a call of ps.PacketLost()
RecordLoss ==
  /\ packets' = PacketLost(packets)
  /\ nLost' = nLost + 1
  /\ UNCHANGED nOK

\* func handler(resp *response, err error): ps.PacketReceived(resp.rtt)
handler(rtt) ==
  /\ packets' = PacketReceived(packets, rtt)
  /\ nOK' = nOK + 1
  /\ UNCHANGED nLost

\* ------------------------------------------------------------ the ledger
Insert(q, t) == [i \in (DOMAIN q) \cup {t.id} |-> IF i = t.id THEN t ELSE q[i]]
Delete(q, id) == [i \in (DOMAIN q) \ {id} |-> q[i]]

\* sync.Mutex.Lock by goroutine g: blocks while the mutex is locked
Lock(g) == mux = "none" /\ mux' = g

\* sync.Mutex.Unlock: a fatal error when the mutex is not locked
Unlock == IF mux = "none"
          THEN mux' = mux /\ fatal' = "unlock of unlocked mutex"
          ELSE mux' = "none" /\ fatal' = fatal

\* sendICMP calls entered or still to enter the critical section
SendsStarted == seq + (IF pingPC \in {"send_lock", "send_cs"} THEN 1 ELSE 0)

\* the process runs until run() has returned (main then returns) or the runtime has
\* ended it with a fatal error
Alive == fatal = "none" /\ mainPC \in {"wait", "stopped"}

\* ------------------------------------------------ goroutine Ping / sendICMP
\* Ping: go p.receiveLoop(); go p.processLoop()
PingStart ==
  /\ Alive
  /\ pingPC = "start"
  /\ pingPC' = "resolve"
  /\ recvPC' = "top"
  /\ procPC' = "select"
  /\ UNCHANGED <<ledger, mux, chans, ticker, sendId, sendTime, pingErr, retries, writeErr,
                 procPkt, procT, procErr, mainVars, statVars, startTime, authVars, chatVars, now, fatal>>

\* Ping: net.LookupIP fails or yields no address: return err
PingResolveFail ==
  /\ Alive
  /\ pingPC = "resolve"
  /\ pingPC' = "returned"
  /\ pingErr' = "lookup"
  /\ UNCHANGED <<ledger, mux, chans, ticker, sendId, sendTime, retries, writeErr, recvPC, procLocal, mainVars, statVars, startTime, authVars, chatVars, now, fatal>>

\* sendICMP entry: id := rand.Intn(0xffff); timestamp := time.Now()
SendBegin(id) ==
  /\ sendId' = id
  /\ sendTime' = now
  /\ pingPC' = "send_lock"

\* Ping: the first sendICMP call, "manually", once the target is resolved
PingFirstSend ==
  /\ Alive
  /\ pingPC = "resolve"
  /\ \E id \in Ids : SendBegin(id)
  /\ UNCHANGED <<ledger, mux, chans, ticker, pingErr, retries, writeErr,
                 recvPC, procLocal, mainVars, statVars, startTime, authVars, chatVars, now, fatal>>

\* sendICMP: p.mux.Lock()
SendLock ==
  /\ Alive
  /\ pingPC = "send_lock"
  /\ Lock("send")
  /\ pingPC' = "send_cs"
  /\ UNCHANGED <<ledger, chans, ticker, sendId, sendTime, pingErr, retries, writeErr,
                 recvPC, procLocal, mainVars, statVars, startTime, authVars, chatVars, now, fatal>>

\* p.queue[id] = task{id: id, seq: seq, sendTime: timestamp, addr: target}
SendEnqueue(q, id, s, ts) ==
  Insert(q, [id |-> id, seq |-> s, sendTime |-> ts, addr |-> "target"])

\* sendICMP: seq := p.seq; p.seq++; p.queue[id] = task{...}
SendInsert ==
  /\ Alive
  /\ pingPC = "send_cs"
  /\ seq' = seq + 1
  /\ queue' = SendEnqueue(queue, sendId, seq, sendTime)
  /\ sendId' = 0 /\ sendTime' = 0
  /\ pingPC' = "send_unlock"
  /\ UNCHANGED <<mux, chans, ticker, pingErr, retries, writeErr,
                 recvPC, procLocal, mainVars, statVars, startTime, authVars, chatVars, now, fatal>>

\* sendICMP: p.mux.Unlock(), then Marshal (which cannot fail for an icmp.Echo body)
SendUnlock ==
  /\ Alive
  /\ pingPC = "send_unlock"
  /\ Unlock
  /\ pingPC' = IF mux = "none" THEN pingPC ELSE "send_write"
  /\ UNCHANGED <<ledger, chans, ticker, sendId, sendTime, pingErr, retries, writeErr,
                 recvPC, procLocal, mainVars, statVars, startTime, authVars, chatVars, now>>

\* what one p.conn.WriteTo call returns: nil, ENOBUFS, or another error
WriteResults == {Nil, "ENOBUFS", "other"}

\* sendICMP, an iteration of the for loop: one p.conn.WriteTo call.  On ENOBUFS
\* retries++ and, unless retries == MaxSendRetries, continue; on success, on any
\* other error, or at the last retry: break (retries is dead from there on).
SendWrite ==
  /\ Alive
  /\ pingPC = "send_write"
  /\ \E r \in WriteResults :
       /\ writeErr' = r
       /\ IF r = "ENOBUFS" /\ retries + 1 # MaxSendRetries
          THEN retries' = retries + 1 /\ pingPC' = "send_write"
          ELSE retries' = 0 /\ pingPC' = "send_ret"
  /\ UNCHANGED <<ledger, mux, chans, ticker, sendId, sendTime, pingErr,
                 recvPC, procLocal, mainVars, statVars, startTime, authVars, chatVars, now, fatal>>

\* sendICMP: return nil, whatever the last WriteTo returned; in Ping err == nil.
\* After the first call Ping creates the ticker.
SendReturn ==
  /\ Alive
  /\ pingPC = "send_ret"
  /\ pingPC' = "loop"
  /\ writeErr' = Nil
  /\ ticker' = IF ticker = "nil" THEN "running" ELSE ticker
  /\ UNCHANGED <<ledger, mux, chans, sendId, sendTime, pingErr, retries,
                 recvPC, procLocal, mainVars, statVars, startTime, authVars, chatVars, now, fatal>>

\* Ping select: case <-p.ticker.C: p.sendICMP(host, targetIP).  Only Ping reads
\* p.ticker.C: the tick is delivered when Ping takes it.
PingTick ==
  /\ Alive
  /\ pingPC = "loop"
  /\ ticker = "running"
  /\ SendsStarted < MaxSends
  /\ \E id \in Ids : SendBegin(id)
  /\ UNCHANGED <<ledger, mux, chans, ticker, pingErr, retries, writeErr,
                 recvPC, procLocal, mainVars, statVars, startTime, authVars, chatVars, now, fatal>>

\* Ping taking the value from p.mainCtx.done, signalling receiveLoop and going on
\* with its select loop
PingTakeMainDoneGoesOn ==
  /\ Alive
  /\ pingPC = "loop"
  /\ mainCtxDone # << >>
  /\ recvCtxStop = 0
  /\ pingErr' = Head(mainCtxDone)
  /\ mainCtxDone' = Tail(mainCtxDone)
  /\ recvCtxStop' = recvCtxStop + 1
  /\ pingPC' = "loop"
  /\ UNCHANGED <<ledger, mux, recvCtxDone, processCtxStop, ticker, sendId,
                 sendTime, retries, writeErr, recvPC, procLocal, mainVars, statVars,
                 startTime, authVars, chatVars, now, fatal>>

\* Ping select: case sendErr := <-p.mainCtx.done: p.recvCtx.stop <- true
PingTakeMainDone ==
  /\ Alive
  /\ pingPC = "loop"
  /\ mainCtxDone # << >>
  /\ recvCtxStop = 0
  /\ pingErr' = Head(mainCtxDone)
  /\ mainCtxDone' = Tail(mainCtxDone)
  /\ recvCtxStop' = recvCtxStop + 1
  /\ pingPC' = "await_recv"
  /\ UNCHANGED <<ledger, mux, recvCtxDone, processCtxStop, ticker, sendId,
                 sendTime, retries, writeErr, recvPC, procLocal, mainVars, statVars, startTime, authVars, chatVars,
                 now, fatal>>

\* Ping sending p.processCtx.stop <- true without awaiting p.recvCtx.done
PingStopWithoutAwait ==
  /\ Alive
  /\ pingPC = "await_recv"
  /\ processCtxStop = 0
  /\ processCtxStop' = processCtxStop + 1
  /\ pingPC' = "returned"
  /\ ticker' = "stopped"
  /\ UNCHANGED <<ledger, mux, mainCtxDone, recvCtxStop, recvCtxDone, sendId, sendTime,
                 pingErr, retries, writeErr, recvPC, procLocal, mainVars, statVars,
                 startTime, authVars, chatVars, now, fatal>>

\* Ping: recvErr := <-p.recvCtx.done; p.processCtx.stop <- true; return sendErr
\* (with the deferred p.ticker.Stop())
PingAwaitRecv ==
  /\ Alive
  /\ pingPC = "await_recv"
  /\ recvCtxDone # << >>
  /\ processCtxStop = 0
  /\ recvCtxDone' = Tail(recvCtxDone)
  /\ processCtxStop' = processCtxStop + 1
  /\ pingPC' = "returned"
  /\ ticker' = "stopped"
  /\ UNCHANGED <<ledger, mux, mainCtxDone, recvCtxStop, sendId, sendTime,
                 pingErr, retries, writeErr, recvPC, procLocal, mainVars, statVars, startTime, authVars, chatVars,
                 now, fatal>>

\* Ping select: case recvErr := <-p.recvCtx.done: return recvErr
PingTakeRecvDone ==
  /\ Alive
  /\ pingPC = "loop"
  /\ recvCtxDone # << >>
  /\ pingErr' = Head(recvCtxDone)
  /\ recvCtxDone' = Tail(recvCtxDone)
  /\ pingPC' = "returned"
  /\ ticker' = "stopped"
  /\ UNCHANGED <<ledger, mux, mainCtxDone, recvCtxStop, processCtxStop,
                 sendId, sendTime, retries, writeErr, recvPC, procLocal, mainVars, statVars,
                 startTime, authVars, chatVars, now, fatal>>

PingNext ==
  \/ PingStart \/ PingResolveFail \/ PingFirstSend
  \/ SendLock \/ SendInsert \/ SendUnlock \/ SendWrite \/ SendReturn
  \/ PingTick \/ PingTakeMainDone \/ PingAwaitRecv \/ PingTakeRecvDone

\* ------------------------------------------------------ goroutine receiveLoop
\* receiveLoop: select { case <-p.recvCtx.stop: p.recvCtx.done <- nil; return; default: }
RecvStop ==
  /\ Alive
  /\ recvPC = "top"
  /\ recvCtxStop > 0
  /\ recvCtxStop' = recvCtxStop - 1
  /\ recvCtxDone' = Append(recvCtxDone, Nil)
  /\ recvPC' = "exit"
  /\ UNCHANGED <<ledger, mux, mainCtxDone, processCtxStop, ticker, pingLocal,
                 procLocal, mainVars, statVars, startTime, authVars, chatVars, now, fatal>>

\* receiveLoop: default; p.conn.ReadFrom(buf) ends with a timeout: continue
RecvTimeout ==
  /\ Alive
  /\ recvPC = "top"
  /\ recvCtxStop = 0
  /\ UNCHANGED vars

\* receiveLoop: default; ReadFrom fails with another *net.OpError:
\* p.recvCtx.done <- err; return
RecvError ==
  /\ Alive
  /\ recvPC = "top"
  /\ recvCtxStop = 0
  /\ Len(recvCtxDone) = 0
  /\ recvCtxDone' = Append(recvCtxDone, "read error")
  /\ recvPC' = "failed"
  /\ UNCHANGED <<ledger, mux, mainCtxDone, recvCtxStop, processCtxStop, ticker,
                 pingLocal, procLocal, mainVars, statVars, startTime, authVars, chatVars, now, fatal>>

\* receiveLoop: default; ReadFrom returns a packet; the select offers it on p.recvCh.
\* The loop never looks into the packet: what it holds is drawn when processLoop
\* takes it.
RecvPacket ==
  /\ Alive
  /\ recvPC = "top"
  /\ recvCtxStop = 0
  /\ recvPC' = "handoff"
  /\ UNCHANGED <<ledger, mux, chans, ticker, pingLocal, procLocal, mainVars,
                 statVars, startTime, authVars, chatVars, now, fatal>>

\* receiveLoop select: case <-p.recvCtx.stop: return (nothing is sent on recvCtx.done)
RecvStopAtHandoff ==
  /\ Alive
  /\ recvPC = "handoff"
  /\ recvCtxStop > 0
  /\ recvCtxStop' = recvCtxStop - 1
  /\ recvPC' = "exit"
  /\ UNCHANGED <<ledger, mux, mainCtxDone, recvCtxDone, processCtxStop, ticker,
                 pingLocal, procLocal, mainVars, statVars, startTime, authVars, chatVars, now, fatal>>

RecvNext == RecvStop \/ RecvTimeout \/ RecvError \/ RecvPacket \/ RecvStopAtHandoff

\* ------------------------------------------------------ goroutine processLoop
\* processLoop select: case <-p.processCtx.stop: return
ProcStop ==
  /\ Alive
  /\ procPC = "select"
  /\ processCtxStop > 0
  /\ processCtxStop' = processCtxStop - 1
  /\ procPC' = "exit"
  /\ UNCHANGED <<ledger, mux, mainCtxDone, recvCtxStop, recvCtxDone, ticker,
                 pingLocal, recvPC, procPkt, procT, procErr, mainVars, statVars,
                 startTime, authVars, chatVars, now, fatal>>

\* p.recvCh with a buffer: receiveLoop's send completes whether or not processLoop
\* is at its select
TakePacketBuffered(pkt) ==
  /\ recvPC = "handoff"
  /\ Lossy(pkt) => Len(packets) < MaxLossy
  /\ recvPC' = "top"

\* processLoop select: case r := <-p.recvCh, the rendezvous with receiveLoop's
\* case p.recvCh <- &packet{...}: receiveLoop goes back to the top of its loop
TakePacket(pkt) ==
  /\ procPC = "select"
  /\ recvPC = "handoff"
  /\ Lossy(pkt) => Len(packets) < MaxLossy
  /\ recvPC' = "top"

\* processRecv with "defer ps.PacketLost()" ahead of the switch on m.Type
ProcRecvErrorCountsLoss ==
  /\ Alive
  /\ \E pkt \in OtherPkts :
       /\ pkt.kind \in {"garbage", "other"}
       /\ TakePacket(pkt)
       /\ procErr' = IF pkt.kind = "garbage" THEN "parse error" ELSE "invalid reply type"
  /\ procPC' = "ret"
  /\ RecordLoss
  /\ UNCHANGED <<ledger, mux, chans, ticker, pingLocal, procPkt, procT, mainVars,
                 startTime, authVars, chatVars, now, fatal>>

\* processRecv: icmp.ParseMessage fails, or m.Type is neither echo reply nor time
\* exceeded: return fmt.Errorf(...)
ProcRecvError ==
  /\ Alive
  /\ \E pkt \in OtherPkts :
       /\ pkt.kind \in {"garbage", "other"}
       /\ TakePacket(pkt)
       /\ procErr' = IF pkt.kind = "garbage" THEN "parse error" ELSE "invalid reply type"
  /\ procPC' = "ret"
  /\ UNCHANGED <<ledger, mux, chans, ticker, pingLocal, procPkt, procT, mainVars,
                 statVars, startTime, authVars, chatVars, now, fatal>>

\* processRecv, time exceeded: defer ps.PacketLost(); the last 16 bytes do not parse
\* as an echo message: return fmt.Errorf("From %s Time to live exceeded")
ProcRecvTTLBad ==
  /\ Alive
  /\ \E pkt \in OtherPkts : pkt.kind = "ttl_bad" /\ TakePacket(pkt)
  /\ RecordLoss
  /\ procErr' = "time to live exceeded"
  /\ procPC' = "ret"
  /\ UNCHANGED <<ledger, mux, chans, ticker, pingLocal, procPkt, procT, mainVars,
                 startTime, authVars, chatVars, now, fatal>>

\* processRecv: an echo reply, or a time exceeded with an embedded echo: p.unqueuePkt(pkt.ID)
ProcRecvEcho ==
  /\ Alive
  /\ \E pkt \in ReplyPkts \cup TTLPkts : TakePacket(pkt) /\ procPkt' = pkt
  /\ procPC' = "unq_lock"
  /\ UNCHANGED <<ledger, mux, chans, ticker, pingLocal, procT, procErr, mainVars,
                 statVars, startTime, authVars, chatVars, now, fatal>>

\* unqueuePkt: p.mux.Lock(); t, ok := p.queue[id]; ok: delete(p.queue, id); the
\* result is (t, nil) and the deferred Unlock is pending
UnqFound ==
  /\ Alive
  /\ procPC = "unq_lock"
  /\ Lock("proc")
  /\ procPkt.id \in DOMAIN queue
  /\ procT' = queue[procPkt.id]
  /\ queue' = Delete(queue, procPkt.id)
  /\ procErr' = Nil
  /\ procPC' = "unq_defer"
  /\ UNCHANGED <<seq, chans, ticker, pingLocal, recvPC, procPkt, mainVars,
                 statVars, startTime, authVars, chatVars, now, fatal>>

\* unqueuePkt: p.mux.Lock(); !ok: p.mux.Unlock(); the result is
\* (task{}, "Invalid ID: ...") and the deferred Unlock is pending
UnqNotFound ==
  /\ Alive
  /\ procPC = "unq_lock"
  /\ mux = "none"
  /\ procPkt.id \notin DOMAIN queue
  /\ procT' = ZeroTask
  /\ procErr' = "invalid id"
  /\ procPC' = "unq_defer"
  /\ UNCHANGED <<ledger, mux, chans, ticker, pingLocal, recvPC, procPkt, mainVars,
                 statVars, startTime, authVars, chatVars, now, fatal>>

\* unqueuePkt returns (its deferred p.mux.Unlock() runs) and processRecv, time
\* exceeded, returns that error or "From %s icmp_seq=%d Time To Live exceeded";
\* the deferred ps.PacketLost() runs
ProcTTLReturn ==
  /\ Alive
  /\ procPC = "unq_defer"
  /\ procPkt.kind = "ttl"
  /\ Unlock
  /\ IF mux = "none"
     THEN UNCHANGED <<procLocal, statVars>>
     ELSE /\ procPC' = "ret"
          /\ procPkt' = NoPkt /\ procT' = ZeroTask
          /\ IF procErr = Nil
             THEN RecordLoss /\ procErr' = "time to live exceeded"
             ELSE RecordLoss /\ procErr' = procErr
  /\ UNCHANGED <<ledger, chans, ticker, pingLocal, recvPC, mainVars, startTime, authVars, chatVars, now>>

\* unqueuePkt returns (its deferred p.mux.Unlock() runs) and processRecv, echo reply,
\* returns that error; or computes rtt (zero when the sequence numbers differ),
\* compares the addresses and calls p.callback
ProcReplyReturn ==
  /\ Alive
  /\ procPC = "unq_defer"
  /\ procPkt.kind = "reply"
  /\ Unlock
  /\ IF mux = "none"
     THEN UNCHANGED <<procLocal, statVars>>
     ELSE /\ procPC' = "ret"
          /\ procPkt' = NoPkt /\ procT' = ZeroTask
          /\ IF procErr # Nil
             THEN UNCHANGED <<procErr, statVars>>
             ELSE IF procPkt.addr # procT.addr
                  THEN procErr' = "unexpected host" /\ UNCHANGED statVars
                  ELSE /\ handler(IF procPkt.seq = procT.seq
                                  THEN now - procT.sendTime ELSE 0)
                       /\ UNCHANGED procErr
  /\ UNCHANGED <<ledger, chans, ticker, pingLocal, recvPC, mainVars, startTime, authVars, chatVars, now>>

\* processLoop: processRecv has returned; if err != nil { log.Printf(...) }; loop
ProcReturn ==
  /\ Alive
  /\ procPC = "ret"
  /\ procErr' = Nil
  /\ procPC' = "select"
  /\ UNCHANGED <<ledger, mux, chans, ticker, pingLocal, recvPC, procPkt, procT,
                 mainVars, statVars, startTime, authVars, chatVars, now, fatal>>

\* processLoop select: default (no stop buffered, no sender on recvCh): the sweep begins
ProcDefault ==
  /\ Alive
  /\ procPC = "select"
  /\ processCtxStop = 0
  /\ recvPC # "handoff"
  /\ procPC' = "sweep_lock"
  /\ UNCHANGED <<ledger, mux, chans, ticker, pingLocal, recvPC, procPkt, procT,
                 procErr, mainVars, statVars, startTime, authVars, chatVars, now, fatal>>

\* the sweep with !Before in place of After
ExpiredAtDeadline(t, at) == at >= t.sendTime + defaultMaxRTT

\* time.Now().After(t.sendTime.Add(p.maxRTT))
Expired(t, at) == at > t.sendTime + defaultMaxRTT

\* the ids the sweep deletes at time at
SweepIds(q, at) == {id \in DOMAIN q : Expired(q[id], at)}

RECURSIVE LostAll(_, _)
LostAll(pk, n) == IF n = 0 THEN pk ELSE LostAll(PacketLost(pk), n - 1)

\* the body of the sweep's loop for the expired entry id: ps.PacketLost(), then
\* delete(p.queue, id).  The ledger and the records after each of the two
\* statements; lost is the entry t whose loss has been recorded.
SweepEntry(q, pk, id) ==
  << [queue |-> q, packets |-> PacketLost(pk), lost |-> q[id]],
     [queue |-> Delete(q, id), packets |-> PacketLost(pk), lost |-> q[id]] >>

\* the sweep's loop over the expired entries gone, statement by statement
RECURSIVE SweepRun(_, _, _)
SweepRun(q, pk, gone) ==
  IF gone = {} THEN << >>
  ELSE LET id == CHOOSE i \in gone : TRUE
           body == SweepEntry(q, pk, id)
       IN body \o SweepRun(body[2].queue, body[2].packets, gone \ {id})

\* processLoop sweep: p.mux.Lock();
\* for id, t := range p.queue { if expired { ps.PacketLost(); delete(p.queue, id) } }
SweepBody ==
  /\ Alive
  /\ procPC = "sweep_lock"
  /\ Lock("proc")
  /\ LET gone == SweepIds(queue, now) IN
       /\ queue' = [id \in (DOMAIN queue) \ gone |-> queue[id]]
       /\ packets' = LostAll(packets, Cardinality(gone))
       /\ nLost' = nLost + Cardinality(gone)
  /\ procPC' = "sweep_unlock"
  /\ UNCHANGED <<seq, chans, ticker, pingLocal, recvPC, procPkt, procT, procErr,
                 mainVars, nOK, startTime, authVars, chatVars, now, fatal>>

\* processLoop sweep: p.mux.Unlock()
SweepUnlock ==
  /\ Alive
  /\ procPC = "sweep_unlock"
  /\ Unlock
  /\ procPC' = IF mux = "none" THEN procPC ELSE "select"
  /\ UNCHANGED <<ledger, chans, ticker, pingLocal, recvPC, procPkt, procT,
                 procErr, mainVars, statVars, startTime, authVars, chatVars, now>>

ProcNext ==
  \/ ProcStop \/ ProcRecvError \/ ProcRecvTTLBad \/ ProcRecvEcho
  \/ UnqFound \/ UnqNotFound \/ ProcTTLReturn \/ ProcReplyReturn \/ ProcReturn
  \/ ProcDefault \/ SweepBody \/ SweepUnlock

\* sendICMP is about to write p.queue while processLoop enters its own critical
\* section (the mutex having been released under sendICMP): the accesses overlap and
\* the runtime may detect it ("concurrent map writes", "concurrent map read and map write")
MapRace ==
  /\ Alive
  /\ pingPC = "send_cs"
  /\ procPC \in {"unq_lock", "sweep_lock"}
  /\ mux = "none"
  /\ fatal' = "concurrent map access"
  /\ UNCHANGED <<pingerVars, mainVars, statVars, startTime, authVars, chatVars, now>>

\* ------------------------------------------------------------------ run()
\* run: <-c (a signal, or Ping has returned); p.Stop(): p.mainCtx.done <- nil
Stop ==
  /\ Alive
  /\ mainPC = "wait"
  /\ Len(mainCtxDone) = 0
  /\ mainCtxDone' = Append(mainCtxDone, Nil)
  /\ mainPC' = "stopped"
  /\ UNCHANGED <<ledger, mux, recvCtxStop, recvCtxDone, processCtxStop, ticker,
                 pingLocal, recvPC, procLocal, summary, statVars, startTime, authVars, chatVars, now, fatal>>

\* run: if pingErr != nil { return fmt.Errorf(...) }
RunFail ==
  /\ Alive
  /\ mainPC = "stopped"
  /\ pingPC = "returned" /\ pingErr # Nil
  /\ mainPC' = "failed"
  /\ UNCHANGED <<pingerVars, summary, statVars, startTime, authVars, chatVars, now, fatal>>

\* run: s := ps.Calculate(), then the report; run returns
RunCalculate ==
  /\ Alive
  /\ mainPC = "stopped"
  /\ ~(pingPC = "returned" /\ pingErr # Nil)
  /\ \E nan \in NaNInt64 : summary' = Calculate(packets, startTime, now, nan)
  /\ mainPC' = "done"
  /\ UNCHANGED <<pingerVars, statVars, startTime, authVars, chatVars, now, fatal>>

\* time passes
Tick ==
  /\ Alive
  /\ now < MaxTime
  /\ now' = now + 1
  /\ UNCHANGED <<pingerVars, mainVars, statVars, startTime, authVars, chatVars, fatal>>

Next ==
  \/ PingNext \/ RecvNext \/ ProcNext \/ MapRace
  \/ Stop \/ RunFail \/ RunCalculate \/ Tick

Spec == Init /\ [][Next]_vars

\* the scheduler runs every goroutine that can take a step; time passes; run()
\* goes on once Stop has been called (a signal need never come: Stop is not forced)
FairSpec ==
  /\ Spec
  /\ WF_vars(PingNext) /\ WF_vars(RecvNext) /\ WF_vars(ProcNext)
  /\ WF_vars(RunFail \/ RunCalculate) /\ WF_vars(Tick)

\* ----------------------------------------------- a transport without replies
\* The run when p.conn.ReadFrom never returns a packet (it times out, or fails):
\* receiveLoop hands nothing to processLoop, which only sweeps.
SilentNext ==
  \/ PingNext
  \/ RecvStop \/ RecvTimeout \/ RecvError
  \/ ProcStop \/ ProcDefault \/ SweepBody \/ SweepUnlock
  \/ Stop \/ RunFail \/ RunCalculate \/ Tick

SpecSilent == Init /\ [][SilentNext]_vars

\* ------------------------------------------------- PingStats on its own
\* Any sequence of ps.PacketReceived(rtt) and ps.PacketLost() calls, then one
\* Calculate(): the aggregator driven directly, without the Pinger.
StatsPacketReceived ==
  /\ Alive
  /\ Len(packets) < MaxRecords
  /\ \E rtt \in 0..MaxRTTVal : handler(rtt)
  /\ UNCHANGED <<pingerVars, mainVars, startTime, authVars, chatVars, now, fatal>>

StatsPacketLost ==
  /\ Alive
  /\ Len(packets) < MaxRecords
  /\ RecordLoss
  /\ UNCHANGED <<pingerVars, mainVars, startTime, authVars, chatVars, now, fatal>>

StatsCalculate ==
  /\ Alive
  /\ \E nan \in NaNInt64 : summary' = Calculate(packets, startTime, now, nan)
  /\ mainPC' = "done"
  /\ UNCHANGED <<pingerVars, statVars, startTime, authVars, chatVars, now, fatal>>

StatsNext == StatsPacketReceived \/ StatsPacketLost \/ StatsCalculate \/ Tick

SpecStats == Init /\ [][StatsNext]_vars

\* ------------------------------------------------------------------ msg-auth
\* The msg-auth program (src/msg-auth/hash.go and its main and wire-message files):
\* run() sets up the hasher from the flags, the hash command prints the wire string
\* of a message and the verify command parses and verifies a wire string.  A string
\* is a sequence of one-byte characters.  The digest algorithms are modelled by a
\* deterministic mixing function of the prefix and the suffix that yields as many
\* bytes as the algorithm's digest has.

\* the arithmetic of Go's uint8
U8(x) == x % (Uint8Max + 1)

\* the characters that occur: the hexadecimal digits and two other letters
Alphabet == <<"0", "1", "2", "3", "4", "5", "6", "7", "8", "9",
              "a", "b", "c", "d", "e", "f", "k", "z">>
HexDigits == SubSeq(Alphabet, 1, 16)
Code(c) == CHOOSE i \in 1..Len(Alphabet) : Alphabet[i] = c

\* var hashers: the supported algorithms; hash.Hash.Size() of each, in bytes
HashAlgorithms == {"md5-128", "sha1-160", "sha2-256", "sha2-512", "sha3-256", "sha3-512"}
HashSize(algo) ==
  CASE algo = "md5-128" -> 16
    [] algo = "sha1-160" -> 20
    [] algo \in {"sha2-256", "sha3-256"} -> 32
    [] algo \in {"sha2-512", "sha3-512"} -> 64

\* the values of --secret, and the messages of the hash command: n times one character
Secrets == {<<"k">>, <<"z", "k">>}
MsgChars == {"a", "z"}
Messages == {[i \in 1..n |-> c] : n \in 0..MaxMsgLen, c \in MsgChars}

\* hash.Hash.Write: what the bytes data[lo..hi] contribute to the state of the
\* digest (each byte weighted by its position), summed by halves
RECURSIVE Absorb(_, _, _)
Absorb(data, lo, hi) ==
  IF lo > hi THEN 0
  ELSE IF lo = hi THEN Code(data[lo]) * (2 * lo + 1)
  ELSE LET mid == (lo + hi) \div 2
       IN Absorb(data, lo, mid) + Absorb(data, mid + 1, hi)

\* func (h *hasher) Hash(suffix []byte) []byte : H(prefix + suffix)
hasherHash(h, suffix) ==
  LET data == h.prefix \o suffix
      st == (HashSize(h.algo) + Absorb(data, 1, Len(data))) % 256
  IN [i \in 1..HashSize(h.algo) |-> (st + 7 * i) % 256]

\* func (h *hasher) Size() uint8
hasherSize(h) == U8(HashSize(h.algo))

\* hex.EncodeToString
EncodeToString(bs) ==
  [i \in 1..(2 * Len(bs)) |->
     LET b == bs[(i + 1) \div 2]
     IN IF i % 2 = 1 THEN HexDigits[(b \div 16) + 1] ELSE HexDigits[(b % 16) + 1]]

IsHex(c) == \E i \in 1..16 : HexDigits[i] = c
HexVal(c) == (CHOOSE i \in 1..16 : HexDigits[i] = c) - 1

\* hex.DecodeString
DecodeString(s) ==
  IF Len(s) % 2 = 1 \/ \E i \in 1..Len(s) : ~IsHex(s[i])
  THEN [err |-> "hex", bytes |-> << >>]
  ELSE [err |-> Nil,
        bytes |-> [i \in 1..(Len(s) \div 2) |-> HexVal(s[2 * i - 1]) * 16 + HexVal(s[2 * i])]]

\* strconv.ParseUint(s, 16, 8) of a two-character string
ParseUint(s) ==
  IF \E i \in 1..Len(s) : ~IsHex(s[i])
  THEN [err |-> "syntax", val |-> 0]
  ELSE [err |-> Nil, val |-> HexVal(s[1]) * 16 + HexVal(s[2])]

\* func NewWireMessage(message string, h Hasher) *WireMessage
NewWireMessage(message, h) ==
  [Length |-> U8(Len(message)), Message |-> message, Hash |-> hasherHash(h, message)]

\* func (wm *WireMessage) String() string : fmt.Sprintf("%02x%s%s", ...)
WireMessageString(wm) ==
  EncodeToString(<<wm.Length>>) \o wm.Message \o EncodeToString(wm.Hash)

\* func (wm *WireMessage) Verify(hasher Hasher) bool
WireMessageVerify(wm, h) == wm.Hash = hasherHash(h, wm.Message)

\* func ParseWireMessage(wirestr string, hashlen uint8) (*WireMessage, error).
\* messagelen, hashlen and expectedlen are uint8; a slice expression whose bounds
\* are out of range panics.
ParseWireMessage(ws, hashlen) ==
  IF Len(ws) < 2 THEN [err |-> "panic", wm |-> NilWm]
  ELSE LET n == ParseUint(SubSeq(ws, 1, 2))
           messagelen == U8(n.val)
           expectedlen == U8(U8(1 * 2 + messagelen) + U8(hashlen * 2))
           upto == U8(2 + messagelen)
       IN IF n.err # Nil THEN [err |-> n.err, wm |-> NilWm]
          ELSE IF Len(ws) # expectedlen THEN [err |-> "length", wm |-> NilWm]
          ELSE IF upto > Len(ws) THEN [err |-> "panic", wm |-> NilWm]
          ELSE LET sentHash == DecodeString(SubSeq(ws, upto + 1, Len(ws)))
               IN IF sentHash.err # Nil THEN [err |-> sentHash.err, wm |-> NilWm]
                  ELSE IF upto < 2 THEN [err |-> "panic", wm |-> NilWm]
                  ELSE [err |-> Nil,
                        wm |-> [Length |-> messagelen,
                                Message |-> SubSeq(ws, 3, upto),
                                Hash |-> sentHash.bytes]]

\* run(): the flags are parsed, globalHasher = NewHasher(algo) and the shared secret
\* is written into it
AuthRun ==
  /\ hasher = NoHasher
  /\ \E algo \in HashAlgorithms, secret \in Secrets :
       hasher' = [algo |-> algo, prefix |-> secret]
  /\ UNCHANGED <<pingVars, chatVars, wmSent, wirestr, wmRecv, verifyOut>>

\* func Hash(args []string) error : the hash command
Hash ==
  /\ hasher # NoHasher
  /\ wirestr = << >>
  /\ \E message \in Messages :
       /\ wmSent' = NewWireMessage(message, hasher)
       /\ wirestr' = WireMessageString(wmSent')
  /\ UNCHANGED <<pingVars, chatVars, hasher, wmRecv, verifyOut>>

\* func Verify(args []string) error : the verify command, given the string that the
\* hash command printed (in an instance started with the same flags)
Verify ==
  /\ wirestr # << >>
  /\ verifyOut = "none"
  /\ LET r == ParseWireMessage(wirestr, hasherSize(hasher))
     IN IF r.err # Nil
        THEN wmRecv' = NilWm /\ verifyOut' = r.err
        ELSE /\ wmRecv' = r.wm
             /\ verifyOut' = IF WireMessageVerify(r.wm, hasher)
                             THEN "verified" ELSE "tampered"
  /\ UNCHANGED <<pingVars, chatVars, hasher, wmSent, wirestr>>

AuthNext == AuthRun \/ Hash \/ Verify

SpecAuth == Init /\ [][AuthNext]_vars

\* --------------------------------------------------------------- socket-chat
\* Connection.Send and Connection.Receive (src/socket-chat/common.go) over one
\* connection: Send appends the bytes of a message to the stream, Receive reads
\* them with two calls of bufio.Reader.Read.  A string is a sequence of bytes
\* (0..255).  Every Write has arrived in full when Receive reads: a Read returns
\* the bytes asked for, or all that is there when that is less.

\* var MessageStartBytes = []byte{0x00, 0xff}
MessageStartBytes == <<0, 255>>

\* the Command values: CommandNewClient = 1 .. CommandError = 7
CommandNewClient == 1
CommandMessage == 5

NilMsg == [Command |-> 0, Sender |-> << >>, Receiver |-> << >>, Data |-> << >>]

\* n times the byte b
Repeat(b, n) == [i \in 1..n |-> b]

\* the messages given to Send: the first one of a connection, and the later ones
NameLens == {0, 1, MaxNameLen}
ChatMessages ==
  {[Command |-> c, Sender |-> Repeat(97, sl), Receiver |-> Repeat(98, rl),
    Data |-> Repeat(100, dl)] :
     c \in {CommandNewClient, CommandMessage}, sl \in NameLens, rl \in NameLens,
     dl \in 0..MaxDataLen}
NextMessages ==
  {[Command |-> CommandMessage, Sender |-> <<97>>, Receiver |-> <<98>>, Data |-> d] :
     d \in {<< >>, <<100, 101>>}}

\* func (c *Connection) Send(msg *Message) error : the error and the bytes written
ConnectionSend(msg) ==
  IF Len(msg.Sender) > MaxNameByteSize \/ Len(msg.Receiver) > MaxNameByteSize
  THEN [err |-> "MaxNameSizeError", data |-> << >>]
  ELSE IF Len(msg.Data) > MaxDataByteSize
  THEN [err |-> "MaxDataSizeError", data |-> << >>]
  ELSE [err |-> Nil,
        data |-> MessageStartBytes
                 \o <<U8(msg.Command), U8(Len(msg.Sender)), U8(Len(msg.Receiver)),
                      U8(Len(msg.Data))>>
                 \o msg.Sender \o msg.Receiver \o msg.Data]

\* c.r.Read(buf) with len(buf) = k on the stream st
ConnRead(st, k) ==
  LET n == IF k < Len(st) THEN k ELSE Len(st)
  IN [n |-> n, bytes |-> SubSeq(st, 1, n), rest |-> SubSeq(st, n + 1, Len(st))]

\* func (c *Connection) Receive() (*Message, error) on the stream st: the error,
\* the message and the stream left.  senderSize, receiverSize and msgSize are
\* bytes and their sums are computed in uint8; a slice expression whose bounds are
\* out of range panics; a Read for more than zero bytes on an empty stream blocks.
ConnectionReceive(st) ==
  LET h == ConnRead(st, HeaderSize)
      fail(e, rest) == [err |-> e, msg |-> NilMsg, rest |-> rest]
  IN IF h.n # HeaderSize THEN fail("ReceiveHeaderError", h.rest)
     ELSE IF SubSeq(h.bytes, 1, 2) # MessageStartBytes
     THEN fail("ReceiveHeaderError", h.rest)
     ELSE LET senderSize == h.bytes[4]
              receiverSize == h.bytes[5]
              msgSize == h.bytes[6]
              totalSize == U8(U8(senderSize + receiverSize) + msgSize)
              namesEnd == U8(senderSize + receiverSize)
              d == ConnRead(h.rest, totalSize)
          IN IF totalSize > 0 /\ h.rest = << >> THEN fail("blocked", h.rest)
             ELSE IF d.n # totalSize THEN fail("ReceiveHeaderError", d.rest)
             ELSE IF senderSize > totalSize \/ namesEnd > totalSize
                       \/ senderSize > namesEnd
             THEN fail("panic", d.rest)
             ELSE [err |-> Nil,
                   msg |-> [Command |-> h.bytes[3],
                            Sender |-> SubSeq(d.bytes, 1, senderSize),
                            Receiver |-> SubSeq(d.bytes, senderSize + 1, namesEnd),
                            Data |-> SubSeq(d.bytes, namesEnd + 1, totalSize)],
                   rest |-> d.rest]

\* the receiving process has ended in a panic, or waits in a Read for bytes
ReceiverDown ==
  chatRecv # << >> /\ chatRecv[Len(chatRecv)].err \in {"panic", "blocked"}

\* one end of the connection calls Send
ChatSend ==
  /\ Len(chatSent) < MaxChatMsgs
  /\ \E msg \in (IF chatSent = << >> THEN ChatMessages ELSE NextMessages) :
       LET r == ConnectionSend(msg)
       IN /\ r.err = Nil
          /\ stream' = stream \o r.data
          /\ chatSent' = Append(chatSent, msg)
  /\ UNCHANGED <<pingVars, authVars, chatRecv, serverVars>>

\* the other end calls Receive, bytes having arrived
ChatReceive ==
  /\ stream # << >>
  /\ ~ReceiverDown
  /\ LET r == ConnectionReceive(stream)
     IN /\ chatRecv' = Append(chatRecv, [err |-> r.err, msg |-> r.msg])
        /\ stream' = r.rest
  /\ UNCHANGED <<pingVars, authVars, chatSent, serverVars>>

ChatNext == ChatSend \/ ChatReceive

SpecChat == Init /\ [][ChatNext]_vars

\* --------------------------------------------------------------- chat server
\* One goroutine handleConn per accepted connection.  hstack[h] is the handler's
\* call stack while it handles one message: a frame per call it is in, the
\* innermost last.  A frame with pc "new", "join" or "leave" is the handler at
\* the Lock of that group command; the frames with pc "get", "lock" and "iter"
\* are calls of sendToClient, at GetConnection, at s.groupsMux.Lock() and in the
\* loop over the members.  s.connsMux is only held inside GetConnection,
\* SetConnection and DeleteConnection, each of which is one step.

Receivers == Clients \cup GroupNames

Frame(receiver, pc, todo) == [recv |-> receiver, pc |-> pc, todo |-> todo]

Top(h) == hstack[h][Len(hstack[h])]

Pop(h) == SubSeq(hstack[h], 1, Len(hstack[h]) - 1)

ReplaceTop(h, f) == Append(Pop(h), f)

\* the handler is in its loop, blocked in c.Receive() for the next message
AtReceive(h) == hpc[h] = "loop" /\ hstack[h] = << >>

\* the command has been handled (or ended with `continue`): back to c.Receive()
BackToLoop(h) == hstack' = [hstack EXCEPT ![h] = << >>]

\* the handler is inside a call of sendToClient that has locked s.groupsMux
HoldsGroups(h) == \E i \in 1..Len(hstack[h]) : hstack[h][i].pc = "iter"

\* a write on the connection of a client fails once its handler has returned
\* and the deferred c.Close() has run
ConnClosed(c) == hpc[c] = "closed"

\* handleConn, up to the loop: the name message, then SetConnection
HandleConn(h) ==
  /\ hpc[h] = "idle"
  /\ conns' = conns \cup {h}
  /\ hpc' = [hpc EXCEPT ![h] = "loop"]
  /\ UNCHANGED <<pingVars, authVars, codecVars, groups, groupsMux, hstack>>

\* c.Receive() returns io.EOF: handleConn returns, the entry in s.conns stays
HandleEOF(h) ==
  /\ AtReceive(h)
  /\ hpc' = [hpc EXCEPT ![h] = "closed"]
  /\ UNCHANGED <<pingVars, authVars, codecVars, conns, groups, groupsMux, hstack>>

\* c.Receive() returns a group command: the handler goes to s.groupsMux.Lock()
ReceiveGroupCommand(h) ==
  /\ AtReceive(h)
  /\ \E g \in GroupNames, c \in {"new", "join", "leave"} :
       hstack' = [hstack EXCEPT ![h] = <<Frame(g, c, {})>>]
  /\ UNCHANGED <<pingVars, authVars, codecVars, conns, groups, groupsMux, hpc>>

\* case CommandNewChat, from the Lock on
CommandNewChat(h) ==
  /\ hpc[h] = "loop" /\ hstack[h] # << >> /\ Top(h).pc = "new"
  /\ groupsMux = "none"
  /\ LET groupName == Top(h).recv
     IN IF groupName \in DOMAIN groups
        THEN /\ BackToLoop(h)
             /\ UNCHANGED groups
        ELSE /\ groups' = [x \in DOMAIN groups \cup {groupName} |->
                             IF x = groupName THEN {h} ELSE groups[x]]
             /\ hstack' = [hstack EXCEPT ![h] = <<Frame(groupName, "get", {})>>]
  /\ UNCHANGED <<pingVars, authVars, codecVars, conns, groupsMux, hpc>>

\* case CommandJoinChat, from the Lock on
CommandJoinChat(h) ==
  /\ hpc[h] = "loop" /\ hstack[h] # << >> /\ Top(h).pc = "join"
  /\ groupsMux = "none"
  /\ LET groupName == Top(h).recv
     IN IF groupName \notin DOMAIN groups
        THEN /\ BackToLoop(h)
             /\ UNCHANGED groups
        ELSE /\ groups' = [groups EXCEPT ![groupName] = @ \cup {h}]
             /\ hstack' = [hstack EXCEPT ![h] = <<Frame(groupName, "get", {})>>]
  /\ UNCHANGED <<pingVars, authVars, codecVars, conns, groupsMux, hpc>>

\* case CommandLeaveChat, from the Lock on
CommandLeaveChat(h) ==
  /\ hpc[h] = "loop" /\ hstack[h] # << >> /\ Top(h).pc = "leave"
  /\ groupsMux = "none"
  /\ LET groupName == Top(h).recv
     IN IF groupName \notin DOMAIN groups
        THEN /\ BackToLoop(h)
             /\ UNCHANGED groups
        ELSE /\ groups' = [groups EXCEPT ![groupName] = @ \ {h}]
             /\ hstack' = [hstack EXCEPT ![h] = <<Frame(groupName, "get", {})>>]
  /\ UNCHANGED <<pingVars, authVars, codecVars, conns, groupsMux, hpc>>

\* case CommandMessage: s.sendToClient(msg, nil) is called
CommandMessageCase(h) ==
  /\ AtReceive(h)
  /\ \E receiver \in Receivers :
       hstack' = [hstack EXCEPT ![h] = <<Frame(receiver, "get", {})>>]
  /\ UNCHANGED <<pingVars, authVars, codecVars, conns, groups, groupsMux, hpc>>

\* case CommandLeave: DeleteConnection and return; the groups keep the member
CommandLeaveCase(h) ==
  /\ AtReceive(h)
  /\ conns' = conns \ {h}
  /\ hpc' = [hpc EXCEPT ![h] = "closed"]
  /\ UNCHANGED <<pingVars, authVars, codecVars, groups, groupsMux, hstack>>

\* sendToClient returns an error: every caller in the loop over the members
\* returns it too, each running its deferred Unlock, and handleConn goes on
ReturnError(h) ==
  /\ BackToLoop(h)
  /\ groupsMux' = IF HoldsGroups(h) THEN "none" ELSE groupsMux

\* sendToClient: GetConnection(receiver), and receiverc.Send(msg) when found
SendToClientGet(h) ==
  /\ hstack[h] # << >> /\ Top(h).pc = "get"
  /\ IF Top(h).recv \in conns
     THEN IF ConnClosed(Top(h).recv)
          THEN ReturnError(h)
          ELSE /\ hstack' = [hstack EXCEPT ![h] = Pop(h)]
               /\ UNCHANGED groupsMux
     ELSE /\ hstack' = [hstack EXCEPT ![h] = ReplaceTop(h, Frame(Top(h).recv, "lock", {}))]
          /\ UNCHANGED groupsMux
  /\ UNCHANGED <<pingVars, authVars, codecVars, conns, groups, hpc>>

\* sendToClient: s.groupsMux.Lock(), defer Unlock, members, ok := s.groups[receiver]
SendToClientLock(h) ==
  /\ hstack[h] # << >> /\ Top(h).pc = "lock"
  /\ groupsMux = "none"
  /\ IF Top(h).recv \notin DOMAIN groups
     THEN /\ BackToLoop(h)
          /\ groupsMux' = "none"
     ELSE /\ hstack' = [hstack EXCEPT ![h] =
                          ReplaceTop(h, Frame(Top(h).recv, "iter", groups[Top(h).recv]))]
          /\ groupsMux' = h
  /\ UNCHANGED <<pingVars, authVars, codecVars, conns, groups, hpc>>

\* sendToClient: for member := range members { s.sendToClient(msg, &member) },
\* and after the last member return nil through the deferred Unlock
SendToClientIter(h) ==
  /\ hstack[h] # << >> /\ Top(h).pc = "iter"
  /\ IF Top(h).todo = {}
     THEN /\ hstack' = [hstack EXCEPT ![h] = Pop(h)]
          /\ groupsMux' = "none"
     ELSE /\ \E member \in Top(h).todo :
               hstack' = [hstack EXCEPT ![h] =
                            Append(ReplaceTop(h, Frame(Top(h).recv, "iter",
                                                       Top(h).todo \ {member})),
                                   Frame(member, "get", {}))]
          /\ UNCHANGED groupsMux
  /\ UNCHANGED <<pingVars, authVars, codecVars, conns, groups, hpc>>

\* the steps of a handler that the scheduler and the mutex owe it
HandlerStep(h) ==
  \/ CommandNewChat(h) \/ CommandJoinChat(h) \/ CommandLeaveChat(h)
  \/ SendToClientGet(h) \/ SendToClientLock(h) \/ SendToClientIter(h)

ServerNext ==
  \/ \E h \in Clients : HandleConn(h)
  \/ \E h \in Clients : HandleEOF(h)
  \/ \E h \in Clients : ReceiveGroupCommand(h)
  \/ \E h \in Clients : CommandNewChat(h)
  \/ \E h \in Clients : CommandJoinChat(h)
  \/ \E h \in Clients : CommandLeaveChat(h)
  \/ \E h \in Clients : CommandMessageCase(h)
  \/ \E h \in Clients : CommandLeaveCase(h)
  \/ \E h \in Clients : SendToClientGet(h)
  \/ \E h \in Clients : SendToClientLock(h)
  \/ \E h \in Clients : SendToClientIter(h)

SpecServer == Init /\ [][ServerNext]_vars

\* every goroutine that can run does run, and a goroutine waiting for a mutex
\* gets it when it is unlocked again and again
FairSpecServer == SpecServer /\ \A h \in Clients : SF_vars(HandlerStep(h))

\* ===================================================================== claims

\* a step of processLoop that ends a call of unqueuePkt (its deferred Unlock runs)
UnqueueReturns == procPC = "unq_defer" /\ (ProcTTLReturn \/ ProcReplyReturn)

\* C1: when processRecv handles an echo reply or a TTL-exceeded notification whose
\* id is not in the ledger, the lookup ends as an error, nothing fatal happens, the
\* ledger is unchanged, the lock is where it was before the lookup (released once,
\* not twice) and processLoop goes on to its next iteration.
C1_UnknownIdIsNotFatal ==
  [][(UnqueueReturns /\ procErr = "invalid id")
       => /\ fatal' = "none"
          /\ queue' = queue
          /\ mux' = mux
          /\ procPC' = "ret" /\ procErr' = "invalid id"]_vars

\* C2: once Stop() has been called, Ping returns; so Ping is never left waiting
\* for receiveLoop's answer on recvCtx.done when receiveLoop has already returned
\* and no answer is buffered (a state from which Ping cannot return at all).
C2_PingNotLeftWaiting ==
  ~(Alive /\ pingPC = "await_recv" /\ recvPC = "exit" /\ recvCtxDone = << >>)

\* C3: each probe sent contributes at most one record to the statistics: once a
\* probe has been sent, there are never more records than probes sent.
C3_AtMostOneRecordPerProbe ==
  seq >= 1 => Len(packets) <= seq

\* the ledger critical sections: sendICMP between Lock and Unlock; unqueuePkt
\* between a successful lookup and its deferred Unlock; the sweep before its Unlock
InSendCS == pingPC \in {"send_cs", "send_unlock"}
InProcCS == procPC = "sweep_unlock" \/ (procPC = "unq_defer" /\ procErr = Nil)

\* C4: insert with sequence allocation, remove-by-id and the sweep are mutually
\* exclusive: at most one goroutine is inside a ledger critical section, and a
\* goroutine inside its critical section holds the lock.
C4_MutualExclusion ==
  /\ ~(InSendCS /\ InProcCS)
  /\ InSendCS => mux = "send"
  /\ InProcCS => mux = "proc"

\* some probe in the ledger is past its deadline
ExpiredPending == \E id \in DOMAIN queue : now > queue[id].sendTime + defaultMaxRTT

\* C5: while the run is running, a probe in the ledger whose deadline has passed is
\* eventually removed (by the sweep, which records the loss, or by a late match),
\* whatever stream of packets is handed to processLoop.
C5_ExpiredProbeIsSwept ==
  (Alive /\ ExpiredPending) ~> (~Alive \/ ~ExpiredPending \/ procPC = "exit")

\* a step that ends the processing of a TTL-exceeded notification whose embedded
\* id was found in the ledger
KnownTTLReturns == procPC = "unq_defer" /\ procPkt.kind = "ttl" /\ procErr = Nil
                   /\ (procPC' # procPC \/ fatal' # fatal)

\* C6: processing a TTL-exceeded notification whose embedded echo carries the id of
\* a probe in the ledger removes exactly that entry and records exactly one loss.
C6_KnownTTLIsOneLoss ==
  [][/\ (procPC = "unq_lock" /\ procPC' = "unq_defer" /\ procPkt.kind = "ttl"
           /\ procPkt.id \in DOMAIN queue)
         => /\ DOMAIN queue' = (DOMAIN queue) \ {procPkt.id}
            /\ \A i \in DOMAIN queue' : queue'[i] = queue[i]
            /\ UNCHANGED packets
     /\ KnownTTLReturns
         => /\ packets' = Append(packets, StatLost)
            /\ queue' = queue]_vars

\* C7: the first remove-by-id of an id in the ledger returns the request as
\* inserted and deletes the entry; once a probe has been removed and answered, a
\* remove-by-id of an id that is not in the ledger (a second remove with no insert
\* in between) returns not-found to its caller.
C7_RemoveRoundTrip ==
  [][/\ (procPC = "unq_lock" /\ procPC' = "unq_defer" /\ procPkt.id \in DOMAIN queue)
         => /\ procT' = queue[procPkt.id]
            /\ procT'.id = procPkt.id
            /\ procErr' = Nil
            /\ procPkt.id \notin DOMAIN queue'
     /\ (nOK >= 1 /\ procPC = "unq_defer" /\ procT = ZeroTask /\ procErr = "invalid id"
           /\ (procPC' # procPC \/ fatal' # fatal))
         => procPC' = "ret" /\ procErr' = "invalid id"]_vars

\* C8: one sweep removes exactly the entries whose send time is older than
\* now - defaultMaxRTT, leaves every newer entry untouched, and records one loss
\* for each entry removed.
C8_SweepRemovesExactlyExpired ==
  [][(procPC = "sweep_lock" /\ procPC' = "sweep_unlock")
       => LET old == {id \in DOMAIN queue : queue[id].sendTime < now - defaultMaxRTT}
          IN /\ DOMAIN queue' = (DOMAIN queue) \ old
             /\ \A id \in DOMAIN queue' : queue'[id] = queue[id]
             /\ Len(packets') = Len(packets) + Cardinality(old)
             /\ \A i \in 1..Len(packets) : packets'[i] = packets[i]
             /\ \A i \in (Len(packets) + 1)..Len(packets') : packets'[i] = StatLost]_vars

\* a sweep has just removed the one expired probe and kept a newer one
C8_Witness ==
  /\ procPC = "sweep_unlock"
  /\ seq = 2 /\ nOK = 0 /\ nLost = 1 /\ now = 2
  /\ \E id \in DOMAIN queue : queue[id].seq = 1 /\ queue[id].sendTime >= 1

\* C9: sending a probe assigns an id that is not in the ledger, and the insert
\* overwrites nothing: every entry in the ledger before the insert is still
\* there, unchanged, after it.
C9_FreshIdNoOverwrite ==
  [][(pingPC = "send_cs" /\ pingPC' = "send_unlock")
       => /\ sendId \notin DOMAIN queue
          /\ \A id \in DOMAIN queue : id \in DOMAIN queue' /\ queue'[id] = queue[id]]_vars

\* C10: after N calls of PacketReceived and M calls of PacketLost in any order,
\* Calculate reports NumPackets = N + M and NumReceived = N.
C10_SentAndReceived ==
  mainPC = "done" => summary.NumPackets = nOK + nLost /\ summary.NumReceived = nOK

\* a summary over both successes and losses
C10_Witness == mainPC = "done" /\ nOK >= 2 /\ nLost >= 1

\* C11: when at least one record is a success, Calculate's MinRTT and MaxRTT are
\* the minimum and the maximum over the RTTs of the received records only,
\* wherever the losses stand in the sequence.
C11_MinMaxOverReceived ==
  (mainPC = "done" /\ nOK >= 1) =>
    LET R == {packets[i].rtt : i \in {j \in 1..Len(packets) : packets[j].successful}}
    IN /\ summary.MinRTT \in R /\ \A r \in R : summary.MinRTT <= r
       /\ summary.MaxRTT \in R /\ \A r \in R : summary.MaxRTT >= r

\* C12: Calculate's AvgRTT is the sum of the RTTs of the received records divided
\* by the number of all records, received or lost.
C12_AvgOverSent ==
  (mainPC = "done" /\ Len(packets) >= 1) =>
    LET S[i \in 0..Len(packets)] ==
          IF i = 0 THEN 0
          ELSE S[i - 1] + (IF packets[i].successful THEN packets[i].rtt ELSE 0)
    IN summary.AvgRTT = S[Len(packets)] \div (nOK + nLost)

\* a summary over two successes and one loss, where dividing by the number
\* received would give another average
C12_Witness ==
  /\ mainPC = "done" /\ nOK = 2 /\ nLost = 1
  /\ \A i \in 1..Len(packets) : packets[i].successful => packets[i].rtt = 2
  /\ summary.AvgRTT = 1

\* C13: with exactly one record, a success or a loss, Calculate's SdevRTT is zero.
C13_OneRecordSdevZero ==
  (mainPC = "done" /\ Len(packets) = 1) => summary.SdevRTT = 0

\* C14: Calculate with no record returns a summary whose fields are all zero.
C14_EmptySummaryIsZero ==
  (mainPC = "done" /\ Len(packets) = 0) =>
    /\ summary.NumPackets = 0 /\ summary.NumReceived = 0
    /\ summary.TotalDuration = 0
    /\ summary.MinRTT = 0 /\ summary.AvgRTT = 0 /\ summary.MaxRTT = 0
    /\ summary.SdevRTT = 0

\* a summary computed over no record, some time after the start
C14_Witness == mainPC = "done" /\ packets = << >> /\ now >= 1

\* C15: in a run where no reply is ever delivered, the summary computed after the
\* stop request, Ping having returned, reports as many packets as probes were
\* sent, none received.
C15_SilentRunCountsEveryProbe ==
  (mainPC = "done" /\ pingPC = "returned") =>
    summary.NumPackets = seq /\ summary.NumReceived = 0

\* C16: a write error on send that is not ENOBUFS aborts the run: sendICMP's
\* caller gets the error, so that Ping returns it at once (the first send) or
\* puts it on mainCtx.done (a tick), instead of going on to later ticks.
C16_WriteErrorAbortsRun ==
  [][(pingPC = "send_ret" /\ writeErr = "other" /\ pingPC' # pingPC)
       => \/ pingPC' = "returned" /\ pingErr' = "other"
          \/ mainCtxDone' # << >> /\ mainCtxDone'[Len(mainCtxDone')] = "other"]_vars

\* the retry policy of sendICMP: never more than MaxSendRetries WriteTo calls for
\* one probe, another call only after ENOBUFS, and when the last call fails too
\* sendICMP returns to Ping's loop with the ledger as it is
RetryPolicy ==
  [][/\ pingPC = "send_write" => retries < MaxSendRetries
     /\ (pingPC = "send_write" /\ pingPC' = "send_write" /\ retries' # retries)
         => writeErr' = "ENOBUFS" /\ retries' = retries + 1
     /\ (pingPC = "send_ret" /\ writeErr = "ENOBUFS" /\ pingPC' # pingPC)
         => pingPC' = "loop" /\ queue' = queue /\ fatal' = "none"]_vars

\* C17: a probe whose write failed MaxSendRetries times with ENOBUFS stays in the
\* ledger while the run continues and, its deadline being within the run, is
\* later removed from the ledger (by the sweep, which reports it as a loss).
C17_UnsentProbeIsSwept ==
  \A k \in 0..(MaxSends - 1) :
    (/\ Alive /\ pingPC = "send_ret" /\ writeErr = "ENOBUFS" /\ seq = k + 1
     /\ \E id \in DOMAIN queue :
          queue[id].seq = k /\ queue[id].sendTime + defaultMaxRTT < MaxTime)
    ~> (~Alive \/ procPC = "exit" \/ ~\E id \in DOMAIN queue : queue[id].seq = k)

\* C18: when receiveLoop has stopped on a read error that is not a timeout, Ping,
\* having got past the lookup, returns that error.
C18_ReadErrorIsReturned ==
  (recvPC = "failed" /\ pingPC = "returned" /\ seq >= 1) => pingErr = "read error"

\* C19: processing a packet that does not decode, or whose type is neither echo
\* reply nor time exceeded, only yields an error: the ledger, the sequence counter
\* and the statistics are unchanged, nothing fatal happens, and processLoop goes
\* back to its select.
C19_UndecodableIsOnlyAnError ==
  [][/\ (procPC = "select" /\ procPC' # procPC
           /\ procErr' \in {"parse error", "invalid reply type"})
         => /\ procPC' = "ret"
            /\ queue' = queue /\ seq' = seq
            /\ packets' = packets /\ nOK' = nOK /\ nLost' = nLost
            /\ fatal' = "none" /\ mainPC' = mainPC /\ pingPC' = pingPC
     /\ (procPC = "ret" /\ procPC' # procPC) => procPC' = "select"]_vars

\* an undecodable packet has just been handled, with a probe in the ledger and a
\* record in the statistics
C19_Witness ==
  /\ procPC = "ret" /\ procErr = "parse error"
  /\ queue # << >> /\ packets # << >> /\ fatal = "none"

\* C20: an echo reply whose id is in the ledger but which comes from another
\* address than the probe's target ends as an error: the callback is not called
\* and no record is appended.
C20_WrongHostIsAnError ==
  [][(procPC = "unq_defer" /\ procPkt.kind = "reply" /\ procErr = Nil
        /\ procPkt.addr # procT.addr /\ ProcReplyReturn)
       => /\ procPC' = "ret" /\ procErr' = "unexpected host"
          /\ packets' = packets /\ nOK' = nOK /\ nLost' = nLost]_vars

\* the number of times p.callback (handler) has been invoked: each invocation is one
\* ps.PacketReceived
CallbackCalls == nOK

\* C21: p.callback is invoked exactly once for every packet processLoop decodes
\* (here: an echo reply or a time exceeded whose embedded echo carries the id of a
\* probe in the ledger), whether the outcome is a success or an error, exactly once
\* for every loss the sweep detects, and only by processLoop.
C21_CallbackPerOutcome ==
  [][/\ (procPC = "unq_defer" /\ procErr = Nil /\ procPC' = "ret")
         => CallbackCalls' = CallbackCalls + 1
     /\ (procPC = "sweep_lock" /\ procPC' = "sweep_unlock")
         => CallbackCalls' = CallbackCalls + Cardinality((DOMAIN queue) \ (DOMAIN queue'))
     /\ CallbackCalls' # CallbackCalls
         => procPC \in {"unq_defer", "sweep_lock"} /\ procPC' # procPC]_vars

\* the next step of processLoop appends a record: processRecv is past the lookup of
\* a probe whose packet yields a success or a loss, or the sweep is about to take
\* the free lock with an expired probe in the ledger
RecordPending ==
  \/ /\ procPC = "unq_defer" /\ procErr = Nil /\ mux = "proc"
     /\ procPkt.kind = "ttl" \/ procPkt.addr = procT.addr
  \/ procPC = "sweep_lock" /\ mux = "none" /\ ExpiredPending

\* C22: the statistics are read only at the end of the run: when run() computes the
\* summary after Stop(), processLoop is not in the middle of appending a success or
\* loss record (no append runs concurrently with the summary or comes after it).
C22_SummaryAfterLastAppend ==
  mainPC = "done" => ~RecordPending

\* C23: for every message of at most 255 bytes and every supported hash algorithm
\* (digests of 16 to 64 bytes), parsing the wire string produced for the message
\* succeeds and yields the same message, length and digest, and verifying it with a
\* hasher seeded with the same shared secret returns true.
C23_WireRoundTrip ==
  (verifyOut # "none" /\ Len(wmSent.Message) <= 255
     /\ HashSize(hasher.algo) \in 16..64)
    => /\ verifyOut = "verified"
       /\ wmRecv.Message = wmSent.Message
       /\ wmRecv.Length = Len(wmSent.Message)
       /\ wmRecv.Hash = wmSent.Hash

\* processLoop has been told to stop: the stop signal is buffered or has been taken
StopSignalled == processCtxStop > 0 \/ procPC = "exit"

\* C24: on the stop path Ping sends processLoop's stop signal only after
\* receiveLoop has terminated, so that no packet is handed from receiveLoop to
\* processLoop once processLoop has been told to stop.
C24_ProcessStoppedAfterReceive ==
  [][/\ StopSignalled' => recvPC' \in {"exit", "failed"}
     /\ StopSignalled => recvPC' = recvPC]_vars

\* the stop signal is buffered for a processLoop that is still processing a
\* packet handed to it earlier, and receiveLoop has returned
C24_Witness ==
  /\ processCtxStop = 1 /\ recvPC = "exit"
  /\ procPC = "unq_defer" /\ pingPC = "returned"

\* C25: a packet that receiveLoop has read from the transport and is offering to
\* processLoop when the stop request arrives is still handed to processLoop: the
\* hand-off is only ever left by processLoop taking the packet, never by dropping it.
C25_ReadPacketIsHandedOver ==
  [][(recvPC = "handoff" /\ recvPC' # recvPC)
       => recvPC' = "top" /\ procPC = "select" /\ procPC' \in {"ret", "unq_lock"}]_vars

\* the sweep's loop, statement by statement, ends in the ledger and the records
\* that the step SweepBody yields
SweepRunIsSweepBody ==
  [][(procPC = "sweep_lock" /\ procPC' = "sweep_unlock")
       => LET run == SweepRun(queue, packets, SweepIds(queue, now))
          IN IF run = << >> THEN queue' = queue /\ packets' = packets
             ELSE /\ queue' = run[Len(run)].queue
                  /\ packets' = run[Len(run)].packets]_vars

\* C26: for every id, the ledger entry is inserted before the packet carrying the
\* id is written to the transport, and the entry is out of the ledger before any
\* outcome for it is reported or recorded: the success passed to the callback, the
\* loss of a time-exceeded notification, the loss detected by the sweep.
C26_InsertedBeforeSentRemovedBeforeReported ==
  [][/\ (pingPC' = "send_write" /\ pingPC # "send_write") => pingPC = "send_unlock"
     /\ (pingPC = "send_cs" /\ pingPC' = "send_unlock")
         => sendId \in DOMAIN queue' /\ queue'[sendId].seq = seq
     /\ (procPC = "unq_defer" /\ procErr = Nil /\ packets' # packets)
         => ~(procT.id \in DOMAIN queue /\ queue[procT.id] = procT)
     /\ (procPC = "sweep_lock" /\ procPC' = "sweep_unlock")
         => LET run == SweepRun(queue, packets, SweepIds(queue, now))
            IN \A i \in DOMAIN run :
                 ~(run[i].lost.id \in DOMAIN run[i].queue
                     /\ run[i].queue[run[i].lost.id] = run[i].lost)]_vars

\* C27: at most one received packet is in flight between receiveLoop and
\* processLoop, and none is buffered: while receiveLoop holds a packet it has read
\* it reads no other; it leaves the hand-off only at the moment processLoop, at its
\* select, takes the packet, or on a stop signal; it reads packets only from the
\* top of its loop.
C27_OnePacketInFlight ==
  [][/\ (recvPC = "handoff" /\ recvPC' # recvPC)
         => \/ recvPC' = "top" /\ procPC = "select" /\ procPC' \in {"ret", "unq_lock"}
            \/ recvPC' = "exit" /\ recvCtxStop > 0
     /\ (recvPC' = "handoff" /\ recvPC # "handoff") => recvPC = "top"]_vars

\* receiveLoop is blocked with a packet it has read while processLoop is busy with
\* the previous one
C27_Witness ==
  /\ recvPC = "handoff" /\ procPC = "unq_defer" /\ procErr = Nil
  /\ fatal = "none" /\ mainPC = "wait"

\* C28: an echo reply whose id is in the ledger and whose address matches, but
\* whose sequence number differs from the one recorded in the ledger entry, does
\* not abort processing: the entry has been removed, nothing fatal happens, the
\* callback records a success with RTT zero and processLoop goes on.
C28_SeqMismatchIsSuccessWithZeroRTT ==
  [][(procPC = "unq_defer" /\ procPkt.kind = "reply" /\ procErr = Nil
        /\ procPkt.addr = procT.addr /\ procPkt.seq # procT.seq /\ ProcReplyReturn)
       => /\ fatal' = "none" /\ procPC' = "ret" /\ procErr' = Nil
          /\ packets' = Append(packets, StatOK(0))
          /\ CallbackCalls' = CallbackCalls + 1
          /\ ~(procT.id \in DOMAIN queue' /\ queue'[procT.id] = procT)]_vars

\* the numbering of the probes: every ledger entry's sequence number is smaller
\* than the counter, and no two entries share one
SeqNumbering ==
  /\ \A id \in DOMAIN queue : queue[id].seq \in 0..(seq - 1)
  /\ \A i, j \in DOMAIN queue : i # j => queue[i].seq # queue[j].seq

\* C29: sequence numbers are allocated under the ledger lock and increase by one
\* per send, from 0: sendICMP holds p.mux when it allocates, the k-th probe gets
\* sequence k - 1 (the counter counts the probes allocated so far and only an
\* allocation changes it), no two probes share a number and every ledger entry's
\* number is smaller than the counter.
C29_SeqAllocatedUnderLock ==
  [][/\ (pingPC = "send_cs" /\ pingPC' = "send_unlock")
         => /\ mux = "send"
            /\ queue'[sendId].seq = seq
            /\ seq' = seq + 1
     /\ seq' # seq => pingPC = "send_cs" /\ pingPC' = "send_unlock"
     /\ SeqNumbering']_vars

\* C30: the deadline is enforced by the sweep only: a matching reply (known id,
\* expected address) that is processed after the probe's deadline has passed, the
\* sweep not having run in between, is reported as a success and not as a loss;
\* nothing fatal happens and the entry is out of the ledger, so that no later sweep
\* can report that probe as lost.
C30_LateReplyIsSuccess ==
  [][(procPC = "unq_defer" /\ procPkt.kind = "reply" /\ procErr = Nil
        /\ procPkt.addr = procT.addr /\ now > procT.sendTime + defaultMaxRTT
        /\ ProcReplyReturn)
       => /\ fatal' = "none" /\ procPC' = "ret" /\ procErr' = Nil
          /\ packets' = Append(packets, StatOK(IF procPkt.seq = procT.seq
                                               THEN now - procT.sendTime ELSE 0))
          /\ nLost' = nLost
          /\ ~(procT.id \in DOMAIN queue' /\ queue'[procT.id] = procT)]_vars

\* Ping has taken the stop request: Stop() has put it on p.mainCtx.done and the
\* channel is empty again (only Ping receives from it)
StopTaken == mainPC # "wait" /\ mainCtxDone = << >>

\* sendICMP is running
Sending == pingPC \in {"send_lock", "send_cs", "send_unlock", "send_write", "send_ret"}

\* C31: Ping sends one probe at once on entry (the target resolved, before the
\* ticker exists) and afterwards one probe per tick taken from the running ticker;
\* once Ping has taken the stop request no probe is inserted into the ledger or
\* written to the transport any more.
C31_NoSendAfterStopTaken ==
  [][/\ (~Sending /\ Sending')
         => \/ pingPC = "resolve" /\ seq = 0 /\ ticker = "nil"
            \/ pingPC = "loop" /\ ticker = "running"
     /\ (pingPC = "resolve" /\ pingPC' # pingPC) => pingPC' \in {"send_lock", "returned"}
     /\ StopTaken => /\ ~Sending /\ ~Sending'
                     /\ seq' = seq
                     /\ DOMAIN queue' \subseteq DOMAIN queue]_vars

\* Ping has returned on a stop request taken after the first probe, when another
\* tick could still have been served
C31_Witness ==
  /\ StopTaken /\ pingPC = "returned" /\ pingErr = Nil
  /\ seq = 1 /\ ticker = "stopped"

\* C32: whenever Ping has returned after its first send (on a stop request or on a
\* receive error; a send error is never returned), the run is stopped: receiveLoop
\* has returned, and processLoop has returned or its stop signal is buffered for
\* it; neither is left running.
C32_ReturnedMeansStopped ==
  (pingPC = "returned" /\ seq >= 1 /\ Alive)
    => /\ recvPC \in {"exit", "failed"}
       /\ procPC = "exit" \/ processCtxStop > 0

\* C33: for every message whose sender and receiver have at most 32 bytes and
\* whose data has at most 255 bytes, what Send writes is read back by Receive with
\* the same command, sender, receiver and data, and the stream stays aligned: the
\* n-th Receive returns the n-th message sent, and once as many messages are
\* received as were sent no byte is left over.
C33_ChatRoundTrip ==
  /\ Len(chatRecv) <= Len(chatSent)
  /\ \A i \in 1..Len(chatRecv) :
       (i <= Len(chatSent) /\ Len(chatSent[i].Sender) <= 32
          /\ Len(chatSent[i].Receiver) <= 32 /\ Len(chatSent[i].Data) <= 255)
         => chatRecv[i].err = Nil /\ chatRecv[i].msg = chatSent[i]
  /\ Len(chatRecv) = Len(chatSent) => stream = << >>

\* C34: in the chat server, delivering a message addressed to a group always
\* terminates and releases the groups lock, also when a member of the group has
\* no registered connection (it left the server without leaving the group): every
\* handler that is handling a command, a group operation included, gets back to
\* reading its next message, and a locked s.groupsMux is unlocked again.
C34_GroupDeliveryTerminates ==
  /\ \A h \in Clients : (hstack[h] # << >>) ~> (hstack[h] = << >>)
  /\ (groupsMux # "none") ~> (groupsMux = "none")

====
